---- MODULE Spec2Model ----
(***************************************************************************)
(* Model of device.js 2.0.0 (src/src/device.js): the Device constructor,   *)
(* its size classification, its two listener lists and their dispatch.     *)
(*                                                                         *)
(* JavaScript values are modelled as strings: the functions "f" and "g",   *)
(* the non-callable value "notfn", the booleans "true" and "false", the    *)
(* truthy non-boolean "1", the bound arguments "a" and "b", "undefined"    *)
(* and "null"; "boom" is a function that throws when called, "reg" one     *)
(* that registers a size listener and "upd" one that calls updateSize().   *)
(* The script is single threaded: every handler runs to completion, with   *)
(* the calls its callbacks make, so every operation is one action.         *)
(***************************************************************************)
EXTENDS Integers, Sequences, FiniteSets, TLC

(***************************************************************************)
(* Bounds of the model.                                                    *)
(***************************************************************************)
\* at most this many entries in the two listener lists together
MaxListeners == 2
\* at most this many classification passes in a recorded run
MaxPasses == 5
\* at most this many entries in the size list once running callbacks have
\* registered theirs
MaxEntries == 4
\* at most this many handlers bound to each of the two host events
MaxHandlers == 2

(***************************************************************************)
(* JavaScript values.                                                      *)
(***************************************************************************)
Null == "null"
Undefined == "undefined"
Callables == {"f", "g"}
NonCallables == {"notfn"}
FuncValues == Callables \cup NonCallables
\* a function whose body throws when it is called
Throwers == {"boom"}
\* a function whose body is device.addSizeChangeEvent(f)
Registrars == {"reg"}
\* a function whose body is device.updateSize()
Updaters == {"upd"}
Functions == Callables \cup Throwers \cup Registrars \cup Updaters
AutoCallValues == {"true", "false", "1"}
Labels == {"small", "medium", "large"}

\* typeof v
TypeOf(v) ==
    IF v \in Functions THEN "function"
    ELSE IF v \in {"true", "false"} THEN "boolean"
    ELSE IF v = Undefined THEN "undefined"
    ELSE "string"

\* !s for a string s: true exactly for the empty string
NotString(s) == (s = "")

\* b == s for a boolean b and a string s: both sides are converted to
\* numbers (true 1, false 0, "" 0, "0" 0, "1" 1, any other string NaN)
LooseEqBoolString(b, s) ==
    IF b THEN s = "1" ELSE s \in {"", "0"}

\* v || false
OrFalse(v) ==
    IF v \in {"false", Undefined, Null, ""} THEN "false" ELSE v

\* arguments[i - 1], undefined past the end
Arg(arguments, i) ==
    IF i <= Len(arguments) THEN arguments[i] ELSE Undefined

(***************************************************************************)
(* The host: viewport width, orientation angle, media queries.             *)
(***************************************************************************)
\* viewport widths the host can report
Widths == {500, 650, 800, 1000}
\* window.orientation; NoAngle stands for a host without the property
NoAngle == "undefined"
Angles == {"0", "90", NoAngle}

\* a media query "only all and (min-width: min) and (max-width: max)"
Rule(min, max) == [def |-> TRUE, min |-> min, max |-> max]
NoRule == [def |-> FALSE, min |-> 0, max |-> 0]
NoMq == [def |-> FALSE, small |-> NoRule, medium |-> NoRule]

\* Modernizr.mq(rule) on a viewport of width w
Mq(rule, w) == rule.def /\ rule.min <= w /\ w <= rule.max

\* the defaults of the constructor
DefaultOptions ==
    [mq |-> [def |-> TRUE, small |-> Rule(0, 599), medium |-> Rule(600, 960)]]

\* the option objects a caller passes: none, and rules that overlap
OverlapOptions ==
    [mq |-> [def |-> TRUE, small |-> Rule(0, 700), medium |-> Rule(600, 960)]]
OptionChoices == {[mq |-> NoMq], OverlapOptions}

\* $.extend({}, defaults, opts): a shallow copy, key by key
Extend(defaults, opts) ==
    [mq |-> IF opts.mq.def THEN opts.mq ELSE defaults.mq]

(***************************************************************************)
(* State.                                                                  *)
(***************************************************************************)
VARIABLES
    options,                     \* the merged options
    size,                        \* the cached size, Null while unset
    sizeChangeListeners,         \* sequence of [func, args]
    orientationChangeListeners,  \* sequence of [func, args]
    constructed,                 \* init() has run and the object is returned
    resizeHandlers,              \* host: how many handlers are bound to resize
    orientationHandlers,         \* host: how many are bound to orientationchange
    width,                       \* host: viewport width
    angle,                       \* host: window.orientation
    touch,                       \* host: Modernizr.touch
    obs,                         \* what the latest operation did
    recording,                   \* whether this run keeps a history
    passes,                      \* history: the label of every pass
    dispatches                   \* history: every size dispatch

vars == <<options, size, sizeChangeListeners, orientationChangeListeners,
          constructed, resizeHandlers, orientationHandlers, width, angle,
          touch, obs, recording, passes, dispatches>>

\* device.size, the property getSize reads through this: the object
\* literal has no such property
ThisSize == Undefined

NoObs ==
    [op |-> "none", call |-> <<>>, prevSize |-> Null, prevAngle |-> NoAngle,
     fired |-> FALSE, invoked |-> <<>>, seen |-> <<>>, threw |-> FALSE,
     ret |-> Undefined]

(***************************************************************************)
(* Classification and dispatch.                                            *)
(***************************************************************************)
\* a slip: the medium rule is tried before the small rule
ClassifyMediumFirst(w) ==
    IF Mq(options.mq.medium, w) THEN "medium"
    ELSE IF Mq(options.mq.small, w) THEN "small"
    ELSE "large"

\* the switch of updateSize
Classify(w) ==
    IF Mq(options.mq.small, w) THEN "small"
    ELSE IF Mq(options.mq.medium, w) THEN "medium"
    ELSE "large"

\* a slip: the change test is dropped, every pass dispatches
FireAlways(newSize, oldSize) == TRUE

\* a slip: the first classification does not count as a change
FireUnlessUnset(newSize, oldSize) == newSize /= oldSize /\ oldSize /= Null

\* var fire = newSize != size
Fire(newSize, oldSize) == newSize /= oldSize

\* the entry that a running registrar pushes: addSizeChangeEvent(f)
RegisteredEvent == [func |-> "f", args |-> <<>>]

\* what the calls of one handler run through: the size list, the size
\* variable, the callbacks invoked so far and the size each of them found,
\* whether an exception is on its way out, whether a size dispatch ran,
\* and the labels of the passes run
Running ==
    [list |-> sizeChangeListeners, size |-> size, invoked |-> <<>>,
     seen |-> <<>>, threw |-> FALSE, fired |-> FALSE, labels |-> <<>>]

RECURSIVE RunEvents(_, _, _, _)
RECURSIVE UpdateSizeIn(_, _)

\* eventObj.func.apply(this, eventObj.args) on a viewport of width w: the
\* call is recorded, then the body of the callback runs
Call(eventObj, name, w, st) ==
    LET called == [st EXCEPT !.invoked = Append(@, [list |-> name,
                                                    func |-> eventObj.func,
                                                    args |-> eventObj.args]),
                             !.seen = Append(@, st.size)]
    IN IF eventObj.func \in Throwers THEN [called EXCEPT !.threw = TRUE]
       ELSE IF eventObj.func \in Registrars
       THEN [called EXCEPT !.list = Append(@, RegisteredEvent)]
       ELSE IF eventObj.func \in Updaters THEN UpdateSizeIn(w, called)
       ELSE called

\* a change: the walk reads the length of the list at every step, so it
\* reaches the entries that its own callbacks push onto the list
RECURSIVE RunEventsLive(_, _, _, _)
RunEventsLive(list, name, w, st) ==
    IF list = <<>> \/ st.threw THEN st
    ELSE LET eventObj == Head(list)
             after == IF TypeOf(eventObj.func) = "function"
                      THEN Call(eventObj, name, w, st) ELSE st
             rest == IF name = "size"
                     THEN Tail(list) \o SubSeq(after.list, Len(st.list) + 1,
                                               Len(after.list))
                     ELSE Tail(list)
         IN RunEventsLive(rest, name, w, after)

\* a change: every invocation is isolated, a throw does not end the walk
RECURSIVE RunEventsIsolated(_, _, _, _)
RunEventsIsolated(list, name, w, st) ==
    IF list = <<>> THEN st
    ELSE LET eventObj == Head(list)
             after == IF TypeOf(eventObj.func) = "function"
                      THEN [Call(eventObj, name, w, st) EXCEPT !.threw = FALSE]
                      ELSE st
         IN RunEventsIsolated(Tail(list), name, w, after)

\* $.each(list, ...) of runSizeChangeEvents and runOrientationChangeEvents:
\* list holds the entries still to walk of the list as it was when the walk
\* started ($.each reads the length once); an entry that is not a function
\* is passed over, and a callback that throws ends the walk, the exception
\* leaves $.each
RunEvents(list, name, w, st) ==
    IF list = <<>> \/ st.threw THEN st
    ELSE LET eventObj == Head(list)
         IN RunEvents(Tail(list), name, w,
                      IF TypeOf(eventObj.func) = "function"
                      THEN Call(eventObj, name, w, st) ELSE st)

\* a slip: the listeners are dispatched before the new size is stored
SizeAtDispatchStale(newSize, oldSize) == oldSize

\* the value of size while runSizeChangeEvents runs: size = newSize comes
\* before the dispatch
SizeAtDispatch(newSize, oldSize) == newSize

RunSizeChangeEvents(w, st) == RunEvents(st.list, "size", w, st)

\* a slip of copying: the orientation dispatch walks the size list
RunOrientationOverSizeList(w, st) == RunEvents(st.list, "size", w, st)

RunOrientationChangeEvents(w, st) ==
    RunEvents(orientationChangeListeners, "orientation", w, st)

\* updateSize on a viewport of width w, called while st is running
UpdateSizeIn(w, st) ==
    LET newSize == Classify(w)
        fire == Fire(newSize, st.size)
        stored == [st EXCEPT !.size = SizeAtDispatch(newSize, st.size),
                             !.labels = Append(@, newSize),
                             !.fired = @ \/ fire]
        run == IF fire THEN RunSizeChangeEvents(w, stored) ELSE stored
    IN [run EXCEPT !.size = newSize]

\* updateSize on a viewport of width w: the new cached size, whether it
\* dispatched, the callbacks it invoked and the size list afterwards
UpdateSize(w) == UpdateSizeIn(w, Running)

\* the resize event with k handlers bound: each handler is an updateSize,
\* they run in the order they were bound, an exception ends the event
RECURSIVE OnResize(_, _, _)
OnResize(k, w, st) ==
    IF k = 0 \/ st.threw THEN st ELSE OnResize(k - 1, w, UpdateSizeIn(w, st))

\* the orientationchange event with k handlers bound: each handler is a
\* runOrientationChangeEvents
RECURSIVE OnOrientationChange(_, _, _)
OnOrientationChange(k, w, st) ==
    IF k = 0 \/ st.threw THEN st
    ELSE OnOrientationChange(k - 1, w, RunOrientationChangeEvents(w, st))

\* the history after the passes with result r
Recorded(r) ==
    /\ passes' = IF recording THEN passes \o r.labels ELSE passes
    /\ dispatches' =
         IF recording /\ r.fired
         THEN Append(dispatches, [from |-> size, to |-> r.size, invoked |-> Len(r.invoked)])
         ELSE dispatches

CanPass == recording => Len(passes) < MaxPasses

(***************************************************************************)
(* Registration.                                                           *)
(***************************************************************************)
\* if (!typeof func == 'function') return;
GuardRejects(func) == LooseEqBoolString(NotString(TypeOf(func)), "function")

\* a slip: only the function is skipped (i < 1), autoCall is bound too
BoundArgsFromFirst(arguments) ==
    IF Len(arguments) > 1 THEN SubSeq(arguments, 2, Len(arguments)) ELSE <<>>

\* event.args: every argument after the second
BoundArgs(arguments) ==
    IF Len(arguments) > 2 THEN SubSeq(arguments, 3, Len(arguments)) ELSE <<>>

\* a slip: the immediate call is left out
AutoCallNever(autoCall) == FALSE

\* a slip: if (autoCall) instead of if (autoCall === true)
AutoCallTruthy(autoCall) == OrFalse(autoCall) /= "false"

\* autoCall = autoCall || false; if (autoCall === true)
AutoCallNow(autoCall) == OrFalse(autoCall) = "true"

\* a slip: unshift for push, the new entry goes to the front of the list
AddEventAtFront(list, name, arguments) ==
    LET func == Arg(arguments, 1)
        event == [func |-> func, args |-> BoundArgs(arguments)]
        pushed(st) ==
            [run |-> IF name = "size" THEN [st EXCEPT !.list = <<event>> \o @] ELSE st,
             list |-> IF name = "size" THEN <<event>> \o st.list ELSE <<event>> \o list]
        kept(st) == [run |-> st, list |-> IF name = "size" THEN st.list ELSE list]
    IN IF AutoCallNow(Arg(arguments, 2))
       THEN IF TypeOf(func) = "function"
            THEN LET st == Call(event, name, width, Running)
                 IN IF st.threw THEN kept(st) ELSE pushed(st)
            ELSE kept([Running EXCEPT !.threw = TRUE])
       ELSE pushed(Running)

\* the body shared by addSizeChangeEvent and addOrientationChangeEvent on
\* its list: run is what the call ran through (the size list and the size
\* variable afterwards, the callbacks invoked, whether it threw) and list
\* is its own list afterwards; with autoCall the callback runs before the
\* push, so what the callback pushes stands before the new entry, and a
\* call that throws pushes nothing
AddEvent(list, name, arguments) ==
    LET func == Arg(arguments, 1)
        event == [func |-> func, args |-> BoundArgs(arguments)]
        pushed(st) ==
            [run |-> IF name = "size" THEN [st EXCEPT !.list = Append(@, event)] ELSE st,
             list |-> IF name = "size" THEN Append(st.list, event) ELSE Append(list, event)]
        kept(st) == [run |-> st, list |-> IF name = "size" THEN st.list ELSE list]
    IN IF GuardRejects(func)
       THEN kept(Running)
       ELSE IF AutoCallNow(Arg(arguments, 2))
       THEN IF TypeOf(func) = "function"
            THEN LET st == Call(event, name, width, Running)
                 IN IF st.threw THEN kept(st) ELSE pushed(st)
            ELSE kept([Running EXCEPT !.threw = TRUE])
       ELSE pushed(Running)

\* the calls application code makes to a registration operation
RegistrationCalls ==
    {<<fn>> : fn \in FuncValues}
    \cup {<<fn, ac>> : fn \in FuncValues, ac \in AutoCallValues}
    \cup {<<fn, ac, "a", "b">> : fn \in FuncValues, ac \in AutoCallValues}

\* the calls of a recorded run
PlainCalls == {<<"f">>}

CanRegister ==
    Len(sizeChangeListeners) + Len(orientationChangeListeners) < MaxListeners

(***************************************************************************)
(* Init: the constructor has merged the options and initialised its        *)
(* variables; device.init() has not run yet.                               *)
(***************************************************************************)
InitCommon ==
    /\ size = Null
    /\ sizeChangeListeners = <<>>
    /\ orientationChangeListeners = <<>>
    /\ constructed = FALSE
    /\ resizeHandlers = 0
    /\ orientationHandlers = 0
    /\ width \in Widths
    /\ obs = NoObs
    /\ passes = <<>>
    /\ dispatches = <<>>

Init ==
    /\ InitCommon
    /\ \E opts \in OptionChoices : options = Extend(DefaultOptions, opts)
    /\ angle \in Angles
    /\ touch = FALSE
    /\ recording = FALSE

InitRecorded ==
    /\ InitCommon
    /\ options = Extend(DefaultOptions, [mq |-> NoMq])
    /\ angle = "0"
    /\ touch = FALSE
    /\ recording = TRUE

(***************************************************************************)
(* Actions.                                                                *)
(***************************************************************************)
\* a slip: init() subscribes to the host events but leaves out updateSize()
ConstructWithoutPass ==
    /\ ~constructed
    /\ obs' = [NoObs EXCEPT !.op = "construct", !.prevSize = size]
    /\ constructed' = TRUE
    /\ resizeHandlers' = resizeHandlers + 1
    /\ orientationHandlers' = orientationHandlers + 1
    /\ UNCHANGED <<options, size, sizeChangeListeners, orientationChangeListeners,
                   width, angle, touch, recording, passes, dispatches>>

\* device.init(); return device;
Construct ==
    /\ ~constructed
    /\ LET r == UpdateSize(width)
       IN /\ size' = r.size
          /\ obs' = [NoObs EXCEPT !.op = "construct", !.prevSize = size,
                                  !.fired = r.fired, !.invoked = r.invoked,
                                  !.seen = r.seen, !.threw = r.threw]
          /\ sizeChangeListeners' = r.list
          /\ Recorded(r)
    /\ constructed' = TRUE
    /\ resizeHandlers' = resizeHandlers + 1
    /\ orientationHandlers' = orientationHandlers + 1
    /\ UNCHANGED <<options, orientationChangeListeners,
                   width, angle, touch, recording>>

\* the host resizes the viewport to w and fires resize
Resize(w) ==
    /\ constructed
    /\ CanPass
    /\ width' = w
    /\ LET r == OnResize(resizeHandlers, w, Running)
       IN /\ size' = r.size
          /\ obs' = [NoObs EXCEPT !.op = "resize", !.prevSize = size,
                                  !.fired = r.fired, !.invoked = r.invoked,
                                  !.seen = r.seen, !.threw = r.threw]
          /\ Len(r.list) <= MaxEntries
          /\ sizeChangeListeners' = r.list
          /\ Recorded(r)
    /\ UNCHANGED <<options, resizeHandlers, orientationHandlers, orientationChangeListeners,
                   constructed, angle, touch, recording>>

\* application code calls device.updateSize()
CallUpdateSize ==
    /\ constructed
    /\ CanPass
    /\ LET r == UpdateSize(width)
       IN /\ size' = r.size
          /\ obs' = [NoObs EXCEPT !.op = "updateSize", !.prevSize = size,
                                  !.fired = r.fired, !.invoked = r.invoked,
                                  !.seen = r.seen, !.threw = r.threw]
          /\ Len(r.list) <= MaxEntries
          /\ sizeChangeListeners' = r.list
          /\ Recorded(r)
    /\ UNCHANGED <<options, resizeHandlers, orientationHandlers, orientationChangeListeners,
                   constructed, width, angle, touch, recording>>

\* application code calls device.getSize()
GetSize ==
    /\ constructed
    /\ IF Null = ThisSize
       THEN /\ CanPass
            /\ LET r == UpdateSize(width)
               IN /\ size' = r.size
                  /\ obs' = [NoObs EXCEPT !.op = "getSize", !.prevSize = size,
                                          !.fired = r.fired, !.invoked = r.invoked,
                                  !.seen = r.seen, !.threw = r.threw,
                                          !.ret = r.size]
                  /\ Len(r.list) <= MaxEntries
                  /\ sizeChangeListeners' = r.list
                  /\ Recorded(r)
       ELSE /\ obs' = [NoObs EXCEPT !.op = "getSize", !.prevSize = size, !.ret = size]
            /\ UNCHANGED <<size, sizeChangeListeners, passes, dispatches>>
    /\ UNCHANGED <<options, resizeHandlers, orientationHandlers, orientationChangeListeners,
                   constructed, width, angle, touch, recording>>

\* $.inArray(elem, arr): the index, from 0, of the first element that is
\* === elem, and -1 when there is none
InArray(elem, arr) ==
    IF \E i \in 1..Len(arr) : arr[i] = elem
    THEN (CHOOSE i \in 1..Len(arr) :
              arr[i] = elem /\ \A j \in 1..(i - 1) : arr[j] /= elem) - 1
    ELSE -1

\* a boolean as a JavaScript value
BoolString(b) == IF b THEN "true" ELSE "false"

\* a slip: the index is used as a boolean (0 is false, -1 is true)
SizeIsIndexAsBoolean(index) == index /= 0

\* ($.inArray(this.getSize(), arguments) !== -1)
SizeIsResult(index) == index /= -1

\* the label lists application code passes to sizeIs
LabelArgs == {<<>>, <<"large", "medium">>, <<"small">>}

\* application code calls device.sizeIs(labels...)
SizeIs(labels) ==
    /\ constructed
    /\ IF Null = ThisSize
       THEN /\ CanPass
            /\ LET r == UpdateSize(width)
               IN /\ size' = r.size
                  /\ obs' = [NoObs EXCEPT !.op = "sizeIs", !.call = labels,
                                          !.prevSize = size,
                                          !.fired = r.fired, !.invoked = r.invoked,
                                          !.seen = r.seen, !.threw = r.threw,
                                          !.ret = BoolString(SizeIsResult(InArray(r.size, labels)))]
                  /\ Len(r.list) <= MaxEntries
                  /\ sizeChangeListeners' = r.list
                  /\ Recorded(r)
       ELSE /\ obs' = [NoObs EXCEPT !.op = "sizeIs", !.call = labels,
                                    !.prevSize = size,
                                    !.ret = BoolString(SizeIsResult(InArray(size, labels)))]
            /\ UNCHANGED <<size, sizeChangeListeners, passes, dispatches>>
    /\ UNCHANGED <<options, resizeHandlers, orientationHandlers, orientationChangeListeners,
                   constructed, width, angle, touch, recording>>

\* a slip: if (!window.orientation), a host without the property is
\* taken for portrait
OrientationFalsy(a) == IF a \in {"0", NoAngle} THEN "portrait" ELSE "landscape"

\* window.orientation === 0 ? 'portrait' : 'landscape'
Orientation(a) == IF a = "0" THEN "portrait" ELSE "landscape"

\* application code calls device.getOrientation()
GetOrientation ==
    /\ constructed
    /\ obs' = [NoObs EXCEPT !.op = "getOrientation", !.prevSize = size,
                            !.prevAngle = angle, !.ret = Orientation(angle)]
    /\ UNCHANGED <<options, resizeHandlers, orientationHandlers, size, sizeChangeListeners, orientationChangeListeners,
                   constructed, width, angle, touch, recording, passes, dispatches>>

\* application code calls device.hasTouch()
HasTouch ==
    /\ constructed
    /\ obs' = [NoObs EXCEPT !.op = "hasTouch", !.prevSize = size,
                            !.ret = BoolString(touch)]
    /\ UNCHANGED <<options, resizeHandlers, orientationHandlers, size, sizeChangeListeners, orientationChangeListeners,
                   constructed, width, angle, touch, recording, passes, dispatches>>

\* a slip: the two names are exchanged
ClickEventNameSwapped(t) == IF t THEN "click" ELSE "touchend"

\* this.hasTouch() ? 'touchend' : 'click'
ClickEventName(t) == IF t THEN "touchend" ELSE "click"

\* application code calls device.getClickEventName()
GetClickEventName ==
    /\ constructed
    /\ obs' = [NoObs EXCEPT !.op = "getClickEventName", !.prevSize = size,
                            !.ret = ClickEventName(touch)]
    /\ UNCHANGED <<options, resizeHandlers, orientationHandlers, size, sizeChangeListeners, orientationChangeListeners,
                   constructed, width, angle, touch, recording, passes, dispatches>>

\* the accessors that hand a value of the window or the document through
HostReads == {"getWidth", "getHeight", "getScrollTop", "getScrollLeft"}

\* application code calls one of them; the value it returns is the host's
ReadHost(m) ==
    /\ constructed
    /\ obs' = [NoObs EXCEPT !.op = m, !.prevSize = size]
    /\ UNCHANGED <<options, resizeHandlers, orientationHandlers, size, sizeChangeListeners, orientationChangeListeners,
                   constructed, width, angle, touch, recording, passes, dispatches>>

\* a slip: the orientation dispatch is gated on a change, as the size
\* dispatch is
OrientationChangeGated(a) ==
    /\ constructed
    /\ angle' = a
    /\ LET r == IF Orientation(a) /= Orientation(angle)
                THEN OnOrientationChange(orientationHandlers, width, Running)
                ELSE Running
       IN /\ Len(r.list) <= MaxEntries
          /\ size' = r.size
          /\ sizeChangeListeners' = r.list
          /\ obs' = [NoObs EXCEPT !.op = "orientationchange", !.prevSize = size,
                                  !.prevAngle = angle,
                                  !.fired = r.fired, !.invoked = r.invoked,
                                  !.seen = r.seen, !.threw = r.threw]
          /\ Recorded(r)
    /\ UNCHANGED <<options, resizeHandlers, orientationHandlers,
                   orientationChangeListeners, constructed, width, touch,
                   recording>>

\* the host turns to angle a and fires orientationchange
OrientationChange(a) ==
    /\ constructed
    /\ angle' = a
    /\ LET r == OnOrientationChange(orientationHandlers, width, Running)
       IN /\ Len(r.list) <= MaxEntries
          /\ size' = r.size
          /\ sizeChangeListeners' = r.list
          /\ obs' = [NoObs EXCEPT !.op = "orientationchange", !.prevSize = size,
                                  !.prevAngle = angle,
                                  !.fired = r.fired, !.invoked = r.invoked,
                                  !.seen = r.seen, !.threw = r.threw]
          /\ Recorded(r)
    /\ UNCHANGED <<options, resizeHandlers, orientationHandlers,
                   orientationChangeListeners, constructed, width, touch,
                   recording>>

\* a change: autoCall is done by forgetting the cached size and
\* classifying again, which dispatches the whole size list
AddSizeChangeEventByPass(arguments) ==
    /\ constructed
    /\ CanRegister
    /\ LET r == AddEvent(sizeChangeListeners, "size", arguments)
           all == IF r.run.invoked /= <<>>
                  THEN RunEvents(r.list, "size", width, [Running EXCEPT !.fired = TRUE])
                  ELSE r.run
       IN /\ Len(r.list) <= MaxEntries
          /\ sizeChangeListeners' = r.list
          /\ size' = r.run.size
          /\ obs' = [NoObs EXCEPT !.op = "addSizeChangeEvent", !.call = arguments,
                                  !.prevSize = size,
                                  !.fired = all.fired, !.invoked = all.invoked,
                                  !.seen = all.seen, !.threw = r.run.threw]
          /\ Recorded(r.run)
    /\ UNCHANGED <<options, resizeHandlers, orientationHandlers,
                   orientationChangeListeners, constructed, width, angle, touch,
                   recording>>

\* application code calls device.addSizeChangeEvent(arguments...)
AddSizeChangeEvent(arguments) ==
    /\ constructed
    /\ CanRegister
    /\ LET r == AddEvent(sizeChangeListeners, "size", arguments)
       IN /\ Len(r.list) <= MaxEntries
          /\ sizeChangeListeners' = r.list
          /\ size' = r.run.size
          /\ obs' = [NoObs EXCEPT !.op = "addSizeChangeEvent", !.call = arguments,
                                  !.prevSize = size,
                                  !.fired = r.run.fired, !.invoked = r.run.invoked,
                                  !.seen = r.run.seen, !.threw = r.run.threw]
          /\ Recorded(r.run)
    /\ UNCHANGED <<options, resizeHandlers, orientationHandlers,
                   orientationChangeListeners, constructed, width, angle, touch,
                   recording>>

\* application code calls device.addOrientationChangeEvent(arguments...)
AddOrientationChangeEvent(arguments) ==
    /\ constructed
    /\ CanRegister
    /\ LET r == AddEvent(orientationChangeListeners, "orientation", arguments)
       IN /\ Len(r.run.list) <= MaxEntries
          /\ orientationChangeListeners' = r.list
          /\ sizeChangeListeners' = r.run.list
          /\ size' = r.run.size
          /\ obs' = [NoObs EXCEPT !.op = "addOrientationChangeEvent",
                                  !.call = arguments, !.prevSize = size,
                                  !.fired = r.run.fired, !.invoked = r.run.invoked,
                                  !.seen = r.run.seen, !.threw = r.run.threw]
          /\ Recorded(r.run)
    /\ UNCHANGED <<options, resizeHandlers, orientationHandlers, constructed,
                   width, angle, touch, recording>>

\* application code calls device.runSizeChangeEvents(): the size list is
\* walked with no classification
CallRunSizeChangeEvents ==
    /\ constructed
    /\ LET r == RunSizeChangeEvents(width, [Running EXCEPT !.fired = TRUE])
       IN /\ Len(r.list) <= MaxEntries
          /\ size' = r.size
          /\ sizeChangeListeners' = r.list
          /\ obs' = [NoObs EXCEPT !.op = "runSizeChangeEvents", !.prevSize = size,
                                  !.fired = r.fired, !.invoked = r.invoked,
                                  !.seen = r.seen, !.threw = r.threw]
          /\ Recorded(r)
    /\ UNCHANGED <<options, resizeHandlers, orientationHandlers,
                   orientationChangeListeners, constructed, width, angle, touch,
                   recording>>

\* application code calls device.runOrientationChangeEvents()
CallRunOrientationChangeEvents ==
    /\ constructed
    /\ LET r == RunOrientationChangeEvents(width, Running)
       IN /\ Len(r.list) <= MaxEntries
          /\ size' = r.size
          /\ sizeChangeListeners' = r.list
          /\ obs' = [NoObs EXCEPT !.op = "runOrientationChangeEvents",
                                  !.prevSize = size, !.prevAngle = angle,
                                  !.fired = r.fired, !.invoked = r.invoked,
                                  !.seen = r.seen, !.threw = r.threw]
          /\ Recorded(r)
    /\ UNCHANGED <<options, resizeHandlers, orientationHandlers,
                   orientationChangeListeners, constructed, width, angle, touch,
                   recording>>

\* application code calls device.init() on the returned object: one more
\* pass, and one more handler bound to each host event
CallInit ==
    /\ constructed
    /\ CanPass
    /\ resizeHandlers < MaxHandlers
    /\ orientationHandlers < MaxHandlers
    /\ LET r == UpdateSize(width)
       IN /\ Len(r.list) <= MaxEntries
          /\ size' = r.size
          /\ sizeChangeListeners' = r.list
          /\ obs' = [NoObs EXCEPT !.op = "init", !.prevSize = size,
                                  !.fired = r.fired, !.invoked = r.invoked,
                                  !.seen = r.seen, !.threw = r.threw]
          /\ Recorded(r)
          /\ resizeHandlers' = IF r.threw THEN resizeHandlers ELSE resizeHandlers + 1
          /\ orientationHandlers' =
                IF r.threw THEN orientationHandlers ELSE orientationHandlers + 1
    /\ UNCHANGED <<options, orientationChangeListeners, constructed, width,
                   angle, touch, recording>>

\* application code calls device.initSizeListener(): one more handler is
\* bound to resize
CallInitSizeListener ==
    /\ constructed
    /\ resizeHandlers < MaxHandlers
    /\ resizeHandlers' = resizeHandlers + 1
    /\ obs' = [NoObs EXCEPT !.op = "initSizeListener", !.prevSize = size]
    /\ UNCHANGED <<options, orientationHandlers, size, sizeChangeListeners,
                   orientationChangeListeners, constructed, width, angle, touch,
                   recording, passes, dispatches>>

\* application code calls device.initOrientationListener(): one more
\* handler is bound to orientationchange
CallInitOrientationListener ==
    /\ constructed
    /\ orientationHandlers < MaxHandlers
    /\ orientationHandlers' = orientationHandlers + 1
    /\ obs' = [NoObs EXCEPT !.op = "initOrientationListener", !.prevSize = size]
    /\ UNCHANGED <<options, resizeHandlers, size, sizeChangeListeners,
                   orientationChangeListeners, constructed, width, angle, touch,
                   recording, passes, dispatches>>

Next ==
    \/ Construct
    \/ \E w \in Widths : Resize(w)
    \/ CallUpdateSize
    \/ GetSize
    \/ \E labels \in LabelArgs : SizeIs(labels)
    \/ GetOrientation
    \/ HasTouch
    \/ GetClickEventName
    \/ \E m \in HostReads : ReadHost(m)
    \/ \E a \in Angles : OrientationChange(a)
    \/ \E c \in RegistrationCalls : AddSizeChangeEvent(c)
    \/ \E c \in RegistrationCalls : AddOrientationChangeEvent(c)
    \/ CallRunSizeChangeEvents
    \/ CallRunOrientationChangeEvents

Spec == Init /\ [][Next]_vars

(***************************************************************************)
(* Host runs: one monitor on any host (every option object, every angle,   *)
(* with and without touch), queried through its accessors.                 *)
(***************************************************************************)
\* the angles a device reports when it is turned
HostAngles == Angles \cup {"-90", "180"}

\* option objects whose mq gives one rule only, or none
SmallOnlyOptions ==
    [mq |-> [def |-> TRUE, small |-> Rule(0, 700), medium |-> NoRule]]
MediumOnlyOptions ==
    [mq |-> [def |-> TRUE, small |-> NoRule, medium |-> Rule(600, 900)]]
EmptyMqOptions ==
    [mq |-> [def |-> TRUE, small |-> NoRule, medium |-> NoRule]]

\* the option objects of a host run
HostOptionChoices ==
    OptionChoices \cup {SmallOnlyOptions, MediumOnlyOptions, EmptyMqOptions}

\* the registrations of a host run
HostCalls == {<<"f">>, <<"f", "false">>, <<"g", "true", "a", "b">>}

InitHost ==
    /\ InitCommon
    /\ \E opts \in HostOptionChoices : options = Extend(DefaultOptions, opts)
    /\ angle \in HostAngles
    /\ touch \in BOOLEAN
    /\ recording = FALSE

NextHost ==
    \/ Construct
    \/ \E w \in Widths : Resize(w)
    \/ \E a \in HostAngles : OrientationChange(a)
    \/ \E c \in HostCalls : AddOrientationChangeEvent(c)
    \/ GetSize
    \/ \E labels \in LabelArgs : SizeIs(labels)
    \/ GetOrientation
    \/ HasTouch
    \/ GetClickEventName

SpecHost == InitHost /\ [][NextHost]_vars

(***************************************************************************)
(* Fault runs: listeners that throw are registered next to plain ones.     *)
(***************************************************************************)
\* the registrations of a fault run
FaultCalls == {<<"f">>, <<"g", "false", "a", "b">>, <<"boom">>, <<"boom", "true">>}

InitFaults ==
    /\ InitCommon
    /\ options = Extend(DefaultOptions, [mq |-> NoMq])
    /\ angle = "0"
    /\ touch = FALSE
    /\ recording = FALSE

NextFaults ==
    \/ Construct
    \/ \E w \in Widths : Resize(w)
    \/ CallUpdateSize
    \/ \E a \in Angles : OrientationChange(a)
    \/ \E c \in FaultCalls : AddSizeChangeEvent(c)
    \/ \E c \in FaultCalls : AddOrientationChangeEvent(c)

SpecFaults == InitFaults /\ [][NextFaults]_vars

\* recorded runs: the passes of one monitor with plain listeners
NextRecorded ==
    \/ Construct
    \/ \E w \in Widths : Resize(w)
    \/ CallUpdateSize
    \/ \E c \in PlainCalls : AddSizeChangeEvent(c)

SpecRecorded == InitRecorded /\ [][NextRecorded]_vars

(***************************************************************************)
(* Reentrant runs: listeners that call back into the monitor while a       *)
(* dispatch or a registration runs.                                        *)
(***************************************************************************)
\* the size registrations of a reentrant run
ReentrantCalls ==
    {<<"f">>, <<"g", "false", "a", "b">>, <<"reg">>, <<"upd">>, <<"reg", "true">>}

\* the orientation registrations of a reentrant run
ReentrantOrientationCalls == {<<"f">>, <<"reg">>, <<"upd">>, <<"reg", "true">>}

InitReentrant ==
    /\ InitCommon
    /\ options = Extend(DefaultOptions, [mq |-> NoMq])
    /\ angle = "0"
    /\ touch = FALSE
    /\ recording = FALSE

NextReentrant ==
    \/ Construct
    \/ \E w \in Widths : Resize(w)
    \/ CallUpdateSize
    \/ \E a \in Angles : OrientationChange(a)
    \/ \E c \in ReentrantCalls : AddSizeChangeEvent(c)
    \/ \E c \in ReentrantOrientationCalls : AddOrientationChangeEvent(c)
    \/ CallRunSizeChangeEvents
    \/ CallRunOrientationChangeEvents

SpecReentrant == InitReentrant /\ [][NextReentrant]_vars

(***************************************************************************)
(* Runs in which application code also calls the methods of the returned   *)
(* object that the constructor uses for itself: init, initSizeListener,    *)
(* initOrientationListener and the two dispatchers.                        *)
(***************************************************************************)
\* the registrations of such a run
PublicCalls == {<<"f">>, <<"g", "false", "a", "b">>}

InitPublic ==
    /\ InitCommon
    /\ options = Extend(DefaultOptions, [mq |-> NoMq])
    /\ angle = "0"
    /\ touch = FALSE
    /\ recording = FALSE

NextPublic ==
    \/ Construct
    \/ \E w \in Widths : Resize(w)
    \/ CallUpdateSize
    \/ \E a \in Angles : OrientationChange(a)
    \/ \E c \in PublicCalls : AddSizeChangeEvent(c)
    \/ \E c \in PublicCalls : AddOrientationChangeEvent(c)
    \/ CallInit
    \/ CallInitSizeListener
    \/ CallInitOrientationListener
    \/ CallRunSizeChangeEvents
    \/ CallRunOrientationChangeEvents

SpecPublic == InitPublic /\ [][NextPublic]_vars

(***************************************************************************)
(* Vocabulary of the properties.                                           *)
(***************************************************************************)
PassOps == {"resize", "updateSize", "init"}
AddOps == {"addSizeChangeEvent", "addOrientationChangeEvent"}
IsListener(e) == e.func \in Callables

\* the invocations a complete dispatch of a list owes: one per callable
\* entry, in list order, with the entry's own arguments
Owed(list, name) ==
    LET sel == SelectSeq(list, IsListener)
    IN [i \in 1..Len(sel) |-> [list |-> name, func |-> sel[i].func, args |-> sel[i].args]]

\* the arguments of a registration call that follow autoCall
ArgsAfterAutoCall(call) == [i \in 1..(Len(call) - 2) |-> call[i + 2]]

\* the number of places where a sequence changes value
Changes(seq) == Cardinality({i \in 1..(Len(seq) - 1) : seq[i] /= seq[i + 1]})

\* C1: a classification pass after construction dispatches the size-change
\* listeners if and only if the label it computes differs from the cached
\* label of the previous pass; a pass that recomputes the same label
\* invokes no listener, and a pass that dispatches invokes all of them.
C1_DispatchIffLabelChanged ==
    obs.op \in PassOps =>
        /\ obs.fired <=> (size /= obs.prevSize)
        /\ (size = obs.prevSize) => obs.invoked = <<>>
        /\ (size /= obs.prevSize) => obs.invoked = Owed(sizeChangeListeners, "size")

\* a resize recomputed the cached label while a listener was registered,
\* and nothing was invoked
C1_Witness ==
    /\ obs.op = "resize"
    /\ size = obs.prevSize
    /\ \E i \in 1..Len(sizeChangeListeners) : IsListener(sizeChangeListeners[i])
    /\ ~obs.fired
    /\ obs.invoked = <<>>

\* C2 as stated: the first classification pass, performed during
\* construction, fires the size-change listeners, so listeners are invoked
\* in every size dispatch including the first.
C2_FirstPassInvokesListeners ==
    \A i \in 1..Len(dispatches) :
        (dispatches[i].from = Null /\ Len(sizeChangeListeners) > 0)
            => dispatches[i].invoked > 0

\* C2 amended: the first pass counts as a transition and runs the dispatch,
\* but over a list that is still empty; there is one dispatch per change of
\* label (the change from unset included), so passes computing small,
\* small, medium, medium, large give exactly three dispatches; the first
\* invokes no listener and each later one invokes every listener registered
\* by then.
C2_OneDispatchPerTransition ==
    /\ Len(dispatches) = Changes(<<Null>> \o passes)
    /\ constructed =>
          /\ Len(dispatches) >= 1
          /\ dispatches[1].from = Null
          /\ dispatches[1].to = passes[1]
          /\ dispatches[1].invoked = 0
    /\ \A i \in 2..Len(dispatches) : dispatches[i].from = dispatches[i - 1].to
    /\ (passes = <<"small", "small", "medium", "medium", "large">>)
          => Len(dispatches) = 3
    /\ (obs.op \in PassOps /\ obs.fired) =>
          /\ Len(obs.invoked) = Len(sizeChangeListeners)
          /\ dispatches[Len(dispatches)].invoked = Len(obs.invoked)
          /\ dispatches[Len(dispatches)].to = size

\* the five passes of the claim, with a listener registered before the
\* second dispatch
C2_Witness ==
    /\ passes = <<"small", "small", "medium", "medium", "large">>
    /\ Len(dispatches) = 3
    /\ dispatches[1].invoked = 0
    /\ dispatches[2].invoked > 0
    /\ dispatches[3].invoked > 0

\* C3: once the monitor is constructed the cached size is a label, and
\* getSize() returns that label, never unset.
C3_GetSizeNeverUnset ==
    constructed =>
        /\ size \in Labels
        /\ obs.op = "getSize" => (obs.ret \in Labels /\ obs.ret = size)

\* getSize() was called after a resize to a medium viewport
C3_Witness ==
    /\ obs.op = "getSize"
    /\ obs.ret = "medium"
    /\ width = 800

\* C4: the cached label is the first match of the table small, medium,
\* large over the truth values of the two predicates, and nothing else.
C4_FirstMatchTable ==
    constructed =>
        LET s == Mq(options.mq.small, width)
            m == Mq(options.mq.medium, width)
        IN /\ (s => size = "small")
           /\ (~s /\ m => size = "medium")
           /\ (~s /\ ~m => size = "large")

\* both predicates hold and the pass, coming from medium, chose small
C4_Witness ==
    /\ obs.op = "resize"
    /\ Mq(options.mq.small, width)
    /\ Mq(options.mq.medium, width)
    /\ obs.prevSize = "medium"
    /\ size = "small"

\* C5 as stated: every host orientation event invokes every orientation
\* listener exactly once, in order, whether or not the angle changed.
C5_OrientationUngated ==
    obs.op = "orientationchange" =>
        obs.invoked = Owed(orientationChangeListeners, "orientation")

\* k copies of a sequence, one after the other
RECURSIVE Repeated(_, _)
Repeated(seq, k) == IF k = 0 THEN <<>> ELSE seq \o Repeated(seq, k - 1)

\* C5 amended: every host orientation event dispatches the whole
\* orientation list, in order, once for every handler bound to the event,
\* whether or not the angle changed; the constructor binds one handler, so
\* that is exactly once each until application code calls
\* device.initOrientationListener() or device.init(), which bind another.
C5_OncePerBoundHandler ==
    /\ constructed => orientationHandlers >= 1
    /\ obs.op = "orientationchange" =>
          obs.invoked = Repeated(Owed(orientationChangeListeners, "orientation"),
                                 orientationHandlers)

\* an orientation event that left the angle as it was invoked the two
\* listeners of the list once each, through the constructor's handler
C5_Witness ==
    /\ obs.op = "orientationchange"
    /\ obs.prevAngle = angle
    /\ orientationHandlers = 1
    /\ Len(orientationChangeListeners) = 2
    /\ obs.invoked = Owed(orientationChangeListeners, "orientation")
    /\ Len(obs.invoked) = 2

\* C6: a registration stores the callback with exactly the arguments that
\* followed autoCall in that call, stored entries never change, and a
\* dispatch invokes the callable entries in list order, once each, with the
\* stored arguments.
C6_OrderAndOwnArgs ==
    [][/\ \A i \in 1..Len(sizeChangeListeners) :
             sizeChangeListeners'[i] = sizeChangeListeners[i]
       /\ \A i \in 1..Len(orientationChangeListeners) :
             orientationChangeListeners'[i] = orientationChangeListeners[i]
       /\ (obs'.op = "addSizeChangeEvent"
             /\ Len(sizeChangeListeners') > Len(sizeChangeListeners)) =>
             sizeChangeListeners'[Len(sizeChangeListeners')] =
                 [func |-> obs'.call[1], args |-> ArgsAfterAutoCall(obs'.call)]
       /\ (obs'.op = "addOrientationChangeEvent"
             /\ Len(orientationChangeListeners') > Len(orientationChangeListeners)) =>
             orientationChangeListeners'[Len(orientationChangeListeners')] =
                 [func |-> obs'.call[1], args |-> ArgsAfterAutoCall(obs'.call)]
       /\ (obs'.op \in PassOps /\ obs'.fired) =>
             obs'.invoked = Owed(sizeChangeListeners, "size")
       /\ (obs'.op \in {"orientationchange", "runOrientationChangeEvents"}) =>
             obs'.invoked = Owed(orientationChangeListeners, "orientation")
       /\ (obs'.op = "runSizeChangeEvents") =>
             obs'.invoked = Owed(sizeChangeListeners, "size")
      ]_vars

\* a size dispatch invoked f without arguments and then g with "a", "b"
C6_Witness ==
    /\ obs.op = "resize"
    /\ obs.invoked = <<[list |-> "size", func |-> "f", args |-> <<>>],
                       [list |-> "size", func |-> "g", args |-> <<"a", "b">>]>>

\* C7: registering a callable with autoCall true invokes it once, at once,
\* with its bound arguments, and appends the entry; every later dispatch of
\* the list invokes it with the same arguments.
C7_AutoCallInvokesAndEnqueues ==
    [][/\ (obs'.op = "addSizeChangeEvent" /\ Arg(obs'.call, 2) = "true"
             /\ obs'.call[1] \in Callables) =>
             LET e == [func |-> obs'.call[1], args |-> ArgsAfterAutoCall(obs'.call)]
             IN /\ obs'.invoked = <<[list |-> "size", func |-> e.func, args |-> e.args]>>
                /\ sizeChangeListeners' = Append(sizeChangeListeners, e)
       /\ (obs'.op = "addOrientationChangeEvent" /\ Arg(obs'.call, 2) = "true"
             /\ obs'.call[1] \in Callables) =>
             LET e == [func |-> obs'.call[1], args |-> ArgsAfterAutoCall(obs'.call)]
             IN /\ obs'.invoked = <<[list |-> "orientation", func |-> e.func, args |-> e.args]>>
                /\ orientationChangeListeners' = Append(orientationChangeListeners, e)
       /\ (obs'.op \in PassOps /\ size' /= size) =>
             \A i \in 1..Len(sizeChangeListeners) :
                 IsListener(sizeChangeListeners[i]) =>
                     \E j \in 1..Len(obs'.invoked) :
                         obs'.invoked[j] = [list |-> "size",
                                            func |-> sizeChangeListeners[i].func,
                                            args |-> sizeChangeListeners[i].args]
       /\ (obs'.op = "orientationchange") =>
             \A i \in 1..Len(orientationChangeListeners) :
                 IsListener(orientationChangeListeners[i]) =>
                     \E j \in 1..Len(obs'.invoked) :
                         obs'.invoked[j] = [list |-> "orientation",
                                            func |-> orientationChangeListeners[i].func,
                                            args |-> orientationChangeListeners[i].args]
      ]_vars

\* f was registered on the size list with autoCall true and "a", "b", and
\* was invoked with them during the call
C7_Witness ==
    /\ obs.op = "addSizeChangeEvent"
    /\ obs.call = <<"f", "true", "a", "b">>
    /\ obs.invoked = <<[list |-> "size", func |-> "f", args |-> <<"a", "b">>]>>
    /\ sizeChangeListeners[Len(sizeChangeListeners)] = [func |-> "f", args |-> <<"a", "b">>]

\* C8 as stated: an entry of the size list is invoked only by a pass that
\* changed the classification, or by its own registration with autoCall
\* true.
C8_SizeListenerOnlyOnChange ==
    (\E j \in 1..Len(obs.invoked) : obs.invoked[j].list = "size") =>
        \/ obs.op \in {"construct", "resize", "updateSize", "getSize"}
              /\ size /= obs.prevSize
        \/ obs.op = "addSizeChangeEvent" /\ Arg(obs.call, 2) = "true"
              /\ Len(obs.invoked) = 1

\* C8 amended: an entry of the size list is invoked only by a pass that
\* changed the classification, by its own registration with autoCall true,
\* or by application code that calls device.runSizeChangeEvents() itself:
\* never by a registration without autoCall true, by a pass that kept the
\* label or by an orientation event.
C8_OnlyOnChangeOrOwnDispatch ==
    /\ (\E j \in 1..Len(obs.invoked) : obs.invoked[j].list = "size") =>
          \/ obs.op \in {"construct", "resize", "updateSize", "getSize"}
                /\ size /= obs.prevSize
          \/ obs.op = "addSizeChangeEvent" /\ Arg(obs.call, 2) = "true"
                /\ Len(obs.invoked) = 1
          \/ obs.op = "runSizeChangeEvents"
    /\ (obs.op = "addSizeChangeEvent" /\ Arg(obs.call, 2) /= "true") =>
          obs.invoked = <<>>
    /\ (obs.op \in PassOps /\ size = obs.prevSize) => obs.invoked = <<>>
    /\ (obs.op = "orientationchange") =>
          \A j \in 1..Len(obs.invoked) : obs.invoked[j].list = "orientation"

\* f was registered on the size list without autoCall and was not invoked
C8_Witness ==
    /\ obs.op = "addSizeChangeEvent"
    /\ obs.call = <<"f">>
    /\ obs.invoked = <<>>
    /\ sizeChangeListeners[Len(sizeChangeListeners)] = [func |-> "f", args |-> <<>>]

\* C9: registering a non-callable value leaves both listener lists as they
\* were.
C9_NonCallableNotEnqueued ==
    [][(obs'.op \in AddOps /\ obs'.call[1] \notin Callables) =>
           UNCHANGED <<sizeChangeListeners, orientationChangeListeners>>]_vars

\* C10: registering a non-callable value never throws, whatever autoCall
\* is, and no dispatch ever invokes a non-callable entry.
C10_NonCallableNeverThrows ==
    /\ (obs.op \in AddOps /\ obs.call[1] \notin Callables) => ~obs.threw
    /\ \A j \in 1..Len(obs.invoked) : obs.invoked[j].func \in Callables

\* C11: an orientation listener registered without autoCall true is not
\* invoked by a host orientation event that leaves getOrientation() as it
\* was (stated for the event that follows the registration of the only
\* entry of the list).
C11_OrientationListenerOnlyOnChange ==
    [][(/\ obs.op = "addOrientationChangeEvent"
        /\ Arg(obs.call, 2) /= "true"
        /\ obs.call[1] \in Callables
        /\ Len(orientationChangeListeners) = 1
        /\ obs'.op = "orientationchange"
        /\ Orientation(angle') = Orientation(angle))
          => obs'.invoked = <<>>]_vars

\* C12: sizeIs(labels...) returns true exactly when the cached size, which
\* is what getSize() returns, is one of the labels; with no label it
\* returns false.
C12_SizeIsMembership ==
    obs.op = "sizeIs" =>
        /\ obs.ret \in {"true", "false"}
        /\ (obs.ret = "true") <=> (\E i \in 1..Len(obs.call) : obs.call[i] = size)
        /\ (obs.call = <<>>) => obs.ret = "false"

\* sizeIs('large', 'medium') returned true on a medium viewport
C12_Witness ==
    /\ obs.op = "sizeIs"
    /\ obs.call = <<"large", "medium">>
    /\ size = "medium"
    /\ obs.ret = "true"

\* C13: each of the two rules the caller leaves out falls back to its
\* default, also when the mq object gives only one of them, and a rule the
\* caller gives replaces its default: the cached label is the first match
\* over the rules so completed.
C13_OmittedRulesFallBack ==
    constructed =>
        LET sr == IF options.mq.small.def THEN options.mq.small
                  ELSE DefaultOptions.mq.small
            mr == IF options.mq.medium.def THEN options.mq.medium
                  ELSE DefaultOptions.mq.medium
        IN size = IF Mq(sr, width) THEN "small"
                  ELSE IF Mq(mr, width) THEN "medium"
                  ELSE "large"

\* the state of the monitor and of its host, without the observations
monitor == <<options, size, sizeChangeListeners, orientationChangeListeners,
             constructed, width, angle, touch>>

\* C14: getOrientation() returns portrait exactly when the host's angle is
\* zero and landscape for every other angle and for no angle; it does not
\* throw, and whatever came before, the result is that of the angle now.
C14_OrientationFromAngle ==
    obs.op = "getOrientation" =>
        /\ ~obs.threw
        /\ obs.ret \in {"portrait", "landscape"}
        /\ (obs.ret = "portrait") <=> (angle = "0")
        /\ angle = obs.prevAngle

\* getOrientation() on a host that reports no angle returned landscape
C14_Witness ==
    /\ obs.op = "getOrientation"
    /\ angle = NoAngle
    /\ obs.ret = "landscape"

\* C15: getClickEventName() returns touchend when hasTouch() is true and
\* click when it is false, and changes nothing of the monitor.
C15_ClickEventName ==
    [][(obs'.op = "getClickEventName") =>
           /\ touch => obs'.ret = "touchend"
           /\ ~touch => obs'.ret = "click"
           /\ UNCHANGED monitor]_vars

\* getClickEventName() returned touchend on a touch host
C15_Witness ==
    /\ obs.op = "getClickEventName"
    /\ touch
    /\ obs.ret = "touchend"

\* the label the decision table gives a viewport of width w
TableLabel(w) ==
    IF Mq(options.mq.small, w) THEN "small"
    ELSE IF Mq(options.mq.medium, w) THEN "medium"
    ELSE "large"

\* C16: a pass stores the label it computes, changed or not, and stores it
\* before it dispatches: every listener invoked by the pass that asks
\* getSize() gets the new label, never the previous one.
C16_StoredBeforeDispatch ==
    obs.op \in PassOps \cup {"construct"} =>
        /\ size = TableLabel(width)
        /\ Len(obs.seen) = Len(obs.invoked)
        /\ \A j \in 1..Len(obs.seen) :
              obs.seen[j] = size /\ obs.seen[j] /= obs.prevSize

\* a resize from small to large invoked a listener, which saw large
C16_Witness ==
    /\ obs.op = "resize"
    /\ obs.prevSize = "small"
    /\ size = "large"
    /\ Len(obs.invoked) > 0
    /\ obs.seen[1] = "large"

IsFunctionEntry(e) == e.func \in Functions

\* the invocations of a dispatch that the first throwing listener ends:
\* the function entries in list order, up to and including that listener
UntilThrow(list, name) ==
    LET sel == SelectSeq(list, IsFunctionEntry)
        stops == {i \in 1..Len(sel) : sel[i].func \in Throwers}
        last == IF stops = {} THEN Len(sel)
                ELSE CHOOSE i \in stops : \A k \in stops : i <= k
    IN [i \in 1..last |-> [list |-> name, func |-> sel[i].func, args |-> sel[i].args]]

\* C17: a listener that throws ends the dispatch: the listeners before it
\* have run in order, those after it are not invoked, the operation throws;
\* the size pass has stored the new label all the same, so the next pass
\* that computes this label does not dispatch.
C17_ThrowEndsDispatch ==
    [][/\ (obs'.op \in PassOps /\ obs'.fired) =>
             /\ obs'.invoked = UntilThrow(sizeChangeListeners, "size")
             /\ obs'.threw <=>
                   \E i \in 1..Len(sizeChangeListeners) :
                       sizeChangeListeners[i].func \in Throwers
             /\ size' = TableLabel(width)'
       /\ (obs'.op = "orientationchange") =>
             /\ obs'.invoked = UntilThrow(orientationChangeListeners, "orientation")
             /\ obs'.threw <=>
                   \E i \in 1..Len(orientationChangeListeners) :
                       orientationChangeListeners[i].func \in Throwers
       /\ (obs.op \in PassOps /\ obs.threw /\ obs'.op \in PassOps /\ size' = size) =>
             (~obs'.fired /\ obs'.invoked = <<>> /\ ~obs'.threw)
      ]_vars

\* a resize from small to large met a throwing listener registered before
\* g: the pass threw, g was not invoked and the cached size is large
C17_Witness ==
    /\ obs.op = "resize"
    /\ obs.prevSize = "small"
    /\ size = "large"
    /\ obs.threw
    /\ Len(sizeChangeListeners) = 2
    /\ sizeChangeListeners[1].func = "boom"
    /\ sizeChangeListeners[2].func = "g"
    /\ obs.invoked = <<[list |-> "size", func |-> "boom", args |-> <<>>]>>

\* the operations that classify
ClassifyingOps == {"construct", "resize", "updateSize", "init"}

\* the operations that walk a list because application code says so
DispatchOps == {"runSizeChangeEvents", "runOrientationChangeEvents"}

\* C18: only a classification pass changes the cached size: every other
\* operation leaves it as it was, and a registration, an orientation
\* event, getSize(), sizeIs() and the passive accessors run no size
\* dispatch; the only entry of the size list such an operation ever
\* invokes is the one a registration with autoCall is adding.
C18_SizeOnlyByPass ==
    /\ (obs.op \notin ClassifyingOps \cup {"none"}) => size = obs.prevSize
    /\ (obs.op \notin ClassifyingOps \cup DispatchOps \cup {"none"}) =>
          /\ ~obs.fired
          /\ \A j \in 1..Len(obs.invoked) :
                obs.invoked[j].list = "size" =>
                    (obs.op = "addSizeChangeEvent" /\ Len(obs.invoked) = 1)

\* an orientation event invoked an orientation listener while a size
\* listener was registered, and the cached size stayed medium
C18_Witness ==
    /\ obs.op = "orientationchange"
    /\ Len(obs.invoked) = 1
    /\ Len(sizeChangeListeners) = 1
    /\ IsListener(sizeChangeListeners[1])
    /\ obs.prevSize = "medium"
    /\ size = "medium"

\* C19: the two registries are separate: a registration on one list leaves
\* the other list as it was, a pass invokes entries of the size list only,
\* and an orientation event invokes entries of the orientation list only,
\* leaves the cached size and runs no size dispatch.
C19_SeparateRegistries ==
    [][/\ (obs'.op = "addSizeChangeEvent") =>
             /\ UNCHANGED orientationChangeListeners
             /\ \A j \in 1..Len(obs'.invoked) : obs'.invoked[j].list = "size"
       /\ (obs'.op = "addOrientationChangeEvent") =>
             /\ UNCHANGED sizeChangeListeners
             /\ \A j \in 1..Len(obs'.invoked) : obs'.invoked[j].list = "orientation"
       /\ (obs'.op \in ClassifyingOps) =>
             /\ UNCHANGED <<sizeChangeListeners, orientationChangeListeners>>
             /\ \A j \in 1..Len(obs'.invoked) : obs'.invoked[j].list = "size"
       /\ (obs'.op \in {"orientationchange", "runOrientationChangeEvents"}) =>
             /\ UNCHANGED <<sizeChangeListeners, orientationChangeListeners, size>>
             /\ ~obs'.fired
             /\ obs'.invoked = Owed(orientationChangeListeners, "orientation")
       /\ (obs'.op = "runSizeChangeEvents") =>
             /\ UNCHANGED <<sizeChangeListeners, orientationChangeListeners, size>>
             /\ obs'.invoked = Owed(sizeChangeListeners, "size")
      ]_vars

\* a resize changed the label while each list held one listener: only the
\* size listener was invoked
C19_Witness ==
    /\ obs.op = "resize"
    /\ obs.fired
    /\ Len(sizeChangeListeners) = 1
    /\ Len(orientationChangeListeners) = 1
    /\ IsListener(sizeChangeListeners[1])
    /\ IsListener(orientationChangeListeners[1])
    /\ sizeChangeListeners[1] /= orientationChangeListeners[1]
    /\ obs.invoked = Owed(sizeChangeListeners, "size")

\* whether sequence s is a prefix of sequence t
IsPrefix(s, t) == Len(s) <= Len(t) /\ \A i \in 1..Len(s) : t[i] = s[i]

\* C20: both lists only grow: every step keeps each list as a prefix of
\* itself and adds at most one entry, only the list's own registration
\* operation adds one, and the registration of a function appends exactly
\* its entry at the end.
C20_ListsOnlyGrow ==
    [][/\ IsPrefix(sizeChangeListeners, sizeChangeListeners')
       /\ IsPrefix(orientationChangeListeners, orientationChangeListeners')
       /\ Len(sizeChangeListeners') <= Len(sizeChangeListeners) + 1
       /\ Len(orientationChangeListeners') <= Len(orientationChangeListeners) + 1
       /\ (sizeChangeListeners' /= sizeChangeListeners) =>
             obs'.op = "addSizeChangeEvent"
       /\ (orientationChangeListeners' /= orientationChangeListeners) =>
             obs'.op = "addOrientationChangeEvent"
       /\ (obs'.op = "addSizeChangeEvent" /\ obs'.call[1] \in Callables) =>
             sizeChangeListeners' =
                 Append(sizeChangeListeners,
                        [func |-> obs'.call[1], args |-> ArgsAfterAutoCall(obs'.call)])
       /\ (obs'.op = "addOrientationChangeEvent" /\ obs'.call[1] \in Callables) =>
             orientationChangeListeners' =
                 Append(orientationChangeListeners,
                        [func |-> obs'.call[1], args |-> ArgsAfterAutoCall(obs'.call)])
      ]_vars

\* g was registered on the orientation list after f and stands behind it
C20_Witness ==
    /\ obs.op = "addOrientationChangeEvent"
    /\ obs.call = <<"g", "false", "a", "b">>
    /\ orientationChangeListeners =
          <<[func |-> "f", args |-> <<>>], [func |-> "g", args |-> <<"a", "b">>]>>

\* the entries that the registrars among the invoked callbacks have pushed
Registered(invoked) ==
    LET regs == SelectSeq(invoked, LAMBDA e : e.func \in Registrars)
    IN [j \in 1..Len(regs) |-> RegisteredEvent]

\* the functions of a sequence of entries or invocations
Funcs(seq) == [j \in 1..Len(seq) |-> seq[j].func]

\* C21: a dispatch walks the list as it was when the dispatch started: a
\* pass that dispatches invokes every function entry of that list once, in
\* order, and nothing else, so neither the entries its callbacks register
\* during the pass nor a nested dispatch of a callback's updateSize(); the
\* registered entries are on the list afterwards, behind the old ones, and
\* so belong to every later pass; a pass that finds the label unchanged
\* invokes nothing.
C21_DispatchWalksSnapshot ==
    [][/\ (obs'.op \in ClassifyingOps /\ obs'.fired) =>
             /\ obs'.invoked = UntilThrow(sizeChangeListeners, "size")
             /\ Len(obs'.invoked) <= Len(sizeChangeListeners)
             /\ sizeChangeListeners' =
                    sizeChangeListeners \o Registered(obs'.invoked)
       /\ (obs'.op \in ClassifyingOps /\ ~obs'.fired) =>
             /\ obs'.invoked = <<>>
             /\ UNCHANGED sizeChangeListeners
       /\ (obs'.op \in {"orientationchange", "runOrientationChangeEvents"}) =>
             /\ obs'.invoked = UntilThrow(orientationChangeListeners, "orientation")
             /\ UNCHANGED orientationChangeListeners
             /\ sizeChangeListeners' =
                    sizeChangeListeners \o Registered(obs'.invoked)
       /\ (obs'.op = "runSizeChangeEvents") =>
             /\ obs'.invoked = UntilThrow(sizeChangeListeners, "size")
             /\ sizeChangeListeners' =
                    sizeChangeListeners \o Registered(obs'.invoked)
      ]_vars

\* a resize changed the label while the size list held a registrar, an
\* updater and the listener the registrar had pushed in an earlier pass:
\* all three were invoked once, the listener pushed in this pass was not
C21_Witness ==
    /\ obs.op = "resize"
    /\ obs.fired
    /\ Funcs(obs.invoked) = <<"reg", "upd", "f">>
    /\ Funcs(sizeChangeListeners) = <<"reg", "upd", "f", "f">>

====
